---- MODULE Spec2Model ----
(***************************************************************************)
(* Model of base/models.py of studybud: the User avatar lifecycle          *)
(* (User.save, User.delete, UserManager._create_user) over the persisted   *)
(* User table and the media root, and the on_delete rules of Room and      *)
(* Message.                                                                *)
(*                                                                         *)
(* A request handler (a process) holds one in-memory User instance and     *)
(* walks through the handler's code one database or filesystem call at a   *)
(* time.  Spec runs one handler at a time; RaceSpec interleaves two        *)
(* handlers saving the same user; RelSpec adds topics, rooms and messages. *)
(***************************************************************************)
EXTENDS Integers, FiniteSets, Sequences, TLC

\* ------------------------------------------------------------------ bounds
MaxUsers == 2
MaxTopics == 1
MaxRooms == 1
MaxMessages == 1

\* --------------------------------------------------------------- constants
Procs == {"p1", "p2"}
\* avatar = models.ImageField(null=True, default="avatar.svg")
Default == "avatar.svg"
Uploads == {"a.png", "b.png"}
Names == {Default} \cup Uploads
NoRef == "<none>"
\* self.pk of an instance that was never saved; also a NULL host of a Room
NoPk == 0
\* a NULL topic of a Room
NoTopic == 0
\* what a caller may pass as email to _create_user ("" is a falsy email)
RawEmails == {"", "e1@x.org", "e2@x.org", "e2@X.ORG"}
Emails == {"e1@x.org", "e2@x.org"}
MediaRoot == "MEDIA_ROOT"

VARIABLES
    rows,      \* the User table: pk -> [avatar, email]
    nextPk,    \* the next auto-increment primary key of the User table
    files,     \* the paths that exist under the media root
    hist,      \* history: path -> who wrote the file last, and who called
               \* os.remove on it / removed it since it was written
    overlap,   \* history: an operation began while another handler was inside one
    proc,      \* per handler: position, in-memory instance and locals
    topics,    \* the Topic table: set of ids
    nextTopic,
    rooms,     \* the Room table: id -> [host, topic]
    nextRoom,
    messages,  \* the Message table: id -> [user, room]
    nextMessage

userVars == <<rows, nextPk>>
fsVars == <<files, hist>>
relVars == <<topics, nextTopic, rooms, nextRoom, messages, nextMessage>>
vars == <<rows, nextPk, files, hist, overlap, proc,
          topics, nextTopic, rooms, nextRoom, messages, nextMessage>>

\* ------------------------------------------------------------ pure helpers
\* os.path.join(settings.MEDIA_ROOT, name) for a relative name
Path(name) == <<MediaRoot, name>>

AllPaths == {Path(n) : n \in Names}

\* fault: the existence test never finds the file (a wrongly joined path)
PathExistsNever(fs, path) == FALSE

\* os.path.exists(path)
PathExists(fs, path) == path \in fs

\* fault: the removal is left out
OsRemoveKeepsFile(fs, path) == fs

\* what a successful os.remove(path) leaves of the filesystem
OsRemove(fs, path) == fs \ {path}

\* BaseUserManager.normalize_email: the domain part is lowercased
NormalizeEmail(email) == IF email = "e2@X.ORG" THEN "e2@x.org" ELSE email

\* fault: the pk test is left out
IsUpdateAlways(inst) == TRUE

\* if self.pk:
IsUpdate(inst) == inst.pk # NoPk

\* fault: the test against 'avatar.svg' is left out
StaleAvatarIgnoresSentinel(oldName, newName) == oldName # NoRef /\ oldName # newName

\* fault: the test against the new name is left out
StaleAvatarIgnoresChange(oldName, newName) == oldName # NoRef /\ oldName # Default

\* old_instance.avatar and old.name != self.avatar.name and old.name != 'avatar.svg'
StaleAvatar(oldName, newName) ==
    oldName # NoRef /\ oldName # newName /\ oldName # Default

\* fault: delete skips the file step
HasCustomAvatarNever(inst) == FALSE

\* if self.avatar and self.avatar.name != 'avatar.svg':
HasCustomAvatar(inst) == inst.avatar # NoRef /\ inst.avatar # Default

\* fault: DoesNotExist is not caught
OnLookupMissRaise == [pc |-> "done", err |-> "DoesNotExist"]

\* except User.DoesNotExist: pass   -- where the handler goes and what it raises
OnLookupMiss == [pc |-> "super_save", err |-> "none"]

\* fault: OSError is not caught
OnRemoveErrorRaise(after) == [pc |-> "done", err |-> "OSError"]

\* except OSError as e: print(...)  -- where the handler goes and what it raises
OnRemoveError(after) == [pc |-> after, err |-> "none"]

\* nobody wrote the file or called os.remove on it
NoHist == [writer |-> "none", calls |-> {}, remover |-> "none"]

\* the in-memory instance before anything is loaded
NoInst == [pk |-> NoPk, avatar |-> Default, email |-> "", uploaded |-> FALSE]

IdleProc ==
    [pc |-> "idle", op |-> "none", inst |-> NoInst, old |-> NoRef,
     calls |-> 0, fsErr |-> FALSE, lookup |-> "none", err |-> "none",
     swept |-> [rooms |-> {}, messages |-> {}]]

Busy(p) == proc[p].pc \notin {"idle", "done"}

Overlaps(p) == \E q \in Procs \ {p} : Busy(q)

\* unique=True on email: another row already holds this email
EmailTaken(tbl, inst) ==
    \E k \in DOMAIN tbl : k # inst.pk /\ tbl[k].email = inst.email

\* the row Model.save writes for the instance
RowOf(inst) == [avatar |-> inst.avatar, email |-> inst.email]

\* ------------------------------------------------------------------- Init
Init ==
    /\ rows = <<>>
    /\ nextPk = 1
    /\ files = {Path(Default)}
    /\ hist = [f \in AllPaths |-> NoHist]
    /\ overlap = FALSE
    /\ proc = [p \in Procs |-> IdleProc]
    /\ topics = {}
    /\ nextTopic = 1
    /\ rooms = <<>>
    /\ nextRoom = 1
    /\ messages = <<>>
    /\ nextMessage = 1

\* ---------------------------------------------------------------- actions
\* UserManager._create_user(email, avatar=...): builds the instance and enters save
CreateUser(p, email, av, up) ==
    /\ proc[p].pc = "idle"
    /\ nextPk <= MaxUsers
    /\ IF email = ""
       THEN proc' = [proc EXCEPT ![p] =
                [IdleProc EXCEPT !.pc = "done", !.op = "create", !.err = "ValueError"]]
       ELSE proc' = [proc EXCEPT ![p] =
                [IdleProc EXCEPT !.pc = "save", !.op = "create",
                     !.inst = [pk |-> NoPk, avatar |-> av,
                               email |-> NormalizeEmail(email), uploaded |-> up]]]
    /\ overlap' = (overlap \/ Overlaps(p))
    /\ UNCHANGED <<userVars, fsVars, relVars>>

\* a caller holding an instance of a user that was once persisted, with the
\* fields it set in memory, calls user.save()
BeginSave(p, pk, av, em, up) ==
    /\ proc[p].pc = "idle"
    /\ pk \in 1..(nextPk - 1)
    /\ proc' = [proc EXCEPT ![p] =
            [IdleProc EXCEPT !.pc = "save", !.op = "save",
                 !.inst = [pk |-> pk, avatar |-> av, email |-> em, uploaded |-> up]]]
    /\ overlap' = (overlap \/ Overlaps(p))
    /\ UNCHANGED <<userVars, fsVars, relVars>>

\* User.save, lines 51-56: the pk test, the fetch of the persisted row, the comparison
SaveReconcile(p) ==
    LET st == proc[p]
        hit == st.inst.pk \in DOMAIN rows
        oldName == IF hit THEN rows[st.inst.pk].avatar ELSE NoRef
    IN  /\ st.pc = "save"
        /\ proc' = [proc EXCEPT ![p] =
              IF ~IsUpdate(st.inst)
              THEN [st EXCEPT !.pc = "super_save"]
              ELSE IF hit
                   THEN [st EXCEPT !.lookup = "hit", !.old = oldName,
                            !.pc = IF StaleAvatar(oldName, st.inst.avatar)
                                   THEN "save_exists" ELSE "super_save"]
                   ELSE [st EXCEPT !.lookup = "miss",
                                   !.pc = OnLookupMiss.pc, !.err = OnLookupMiss.err]]
        /\ UNCHANGED <<userVars, fsVars, overlap, relVars>>

\* User.save, lines 58-60: os.path.exists(old_avatar_path)
SaveExists(p) ==
    LET st == proc[p] IN
    /\ st.pc = "save_exists"
    /\ proc' = [proc EXCEPT ![p] =
          [st EXCEPT !.pc = IF PathExists(files, Path(st.old))
                            THEN "save_remove" ELSE "super_save"]]
    /\ UNCHANGED <<userVars, fsVars, overlap, relVars>>

\* os.remove(path) inside try/except OSError: the file is gone already
\* (FileNotFoundError), or the call fails (ok = FALSE), or the file is removed
Remove(p, path, ok, after) ==
    LET st == proc[p]
        failed == ~PathExists(files, path) \/ ~ok
        out == IF failed THEN OnRemoveError(after) ELSE [pc |-> after, err |-> "none"]
    IN  /\ files' = IF failed THEN files ELSE OsRemove(files, path)
        /\ hist' = [hist EXCEPT ![path].calls = @ \cup {p},
                                 ![path].remover = IF failed THEN @ ELSE p]
        /\ proc' = [proc EXCEPT ![p] =
              [st EXCEPT !.calls = 1, !.fsErr = failed,
                         !.pc = out.pc, !.err = out.err]]
        /\ UNCHANGED <<userVars, overlap, relVars>>

\* User.save, lines 61-65
SaveRemove(p, ok) ==
    /\ proc[p].pc = "save_remove"
    /\ Remove(p, Path(proc[p].old), ok, "super_save")

\* User.save, line 69: super().save().  An uploaded file is written to the
\* media root under the instance's avatar name (pre_save of the field), then
\* the row is inserted or updated in one statement; a duplicate email raises
\* IntegrityError and leaves the table as it was.
SuperSave(p) ==
    LET st == proc[p]
        i == st.inst
        path == Path(i.avatar)
        taken == EmailTaken(rows, i)
        pk == IF i.pk = NoPk THEN nextPk ELSE i.pk
    IN  /\ st.pc = "super_save"
        /\ i.pk = NoPk => nextPk <= MaxUsers
        /\ files' = IF i.uploaded THEN files \cup {path} ELSE files
        /\ hist' = IF i.uploaded
                   THEN [hist EXCEPT ![path] = [NoHist EXCEPT !.writer = p]]
                   ELSE hist
        /\ IF taken
           THEN /\ proc' = [proc EXCEPT ![p] =
                      [st EXCEPT !.pc = "done", !.err = "IntegrityError",
                                 !.inst.uploaded = FALSE]]
                /\ UNCHANGED userVars
           ELSE /\ rows' = [k \in DOMAIN rows \cup {pk} |->
                               IF k = pk THEN RowOf(i) ELSE rows[k]]
                /\ nextPk' = IF i.pk = NoPk THEN nextPk + 1 ELSE nextPk
                /\ proc' = [proc EXCEPT ![p] =
                      [st EXCEPT !.pc = "done", !.inst.pk = pk,
                                 !.inst.uploaded = FALSE]]
        /\ UNCHANGED <<overlap, relVars>>

\* a caller loads a persisted user (User.objects.get) and calls user.delete()
BeginDelete(p, pk) ==
    /\ proc[p].pc = "idle"
    /\ pk \in DOMAIN rows
    /\ proc' = [proc EXCEPT ![p] =
            [IdleProc EXCEPT !.pc = "delete", !.op = "delete",
                 !.inst = [pk |-> pk, avatar |-> rows[pk].avatar,
                           email |-> rows[pk].email, uploaded |-> FALSE]]]
    /\ overlap' = (overlap \/ Overlaps(p))
    /\ UNCHANGED <<userVars, fsVars, relVars>>

\* User.delete, lines 74-76: the sentinel test and os.path.exists(avatar_path)
DeleteCheck(p) ==
    LET st == proc[p] IN
    /\ st.pc = "delete"
    /\ proc' = [proc EXCEPT ![p] =
          [st EXCEPT !.pc = IF HasCustomAvatar(st.inst)
                               /\ PathExists(files, Path(st.inst.avatar))
                            THEN "delete_remove" ELSE "super_delete"]]
    /\ UNCHANGED <<userVars, fsVars, overlap, relVars>>

\* User.delete, lines 77-80
DeleteRemove(p, ok) ==
    /\ proc[p].pc = "delete_remove"
    /\ Remove(p, Path(proc[p].inst.avatar), ok, "super_delete")

\* on_delete=models.SET_NULL on Room.host
RoomsAfterUserDelete(tbl, pk) ==
    [r \in DOMAIN tbl |-> [tbl[r] EXCEPT !.host = IF @ = pk THEN NoPk ELSE @]]

\* on_delete=models.SET_NULL on Room.topic
RoomsAfterTopicDelete(tbl, t) ==
    [r \in DOMAIN tbl |-> [tbl[r] EXCEPT !.topic = IF @ = t THEN NoTopic ELSE @]]

\* on_delete=models.CASCADE on Message.room
MessagesAfterRoomDelete(tbl, r) ==
    [m \in {x \in DOMAIN tbl : tbl[x].room # r} |-> tbl[m]]

\* fault: the messages of a deleted user are kept
MessagesKeepUser(tbl, pk) == tbl

\* on_delete=models.CASCADE on Message.user
MessagesAfterUserDelete(tbl, pk) ==
    [m \in {x \in DOMAIN tbl : tbl[x].user # pk} |-> tbl[m]]

\* the rows the deletion of user pk collects: rooms it hosts, messages it wrote
DependentsOf(pk) ==
    [rooms |-> {r \in DOMAIN rooms : rooms[r].host = pk},
     messages |-> {m \in DOMAIN messages : messages[m].user = pk}]

\* User.delete, line 81: super().delete()
SuperDelete(p) ==
    LET st == proc[p]
        pk == st.inst.pk
    IN  /\ st.pc = "super_delete"
        /\ rows' = [k \in DOMAIN rows \ {pk} |-> rows[k]]
        /\ rooms' = RoomsAfterUserDelete(rooms, pk)
        /\ messages' = MessagesAfterUserDelete(messages, pk)
        /\ proc' = [proc EXCEPT ![p] =
              [st EXCEPT !.pc = "done", !.swept = DependentsOf(pk)]]
        /\ UNCHANGED <<nextPk, fsVars, overlap, topics, nextTopic, nextRoom, nextMessage>>

\* the handler returns to its caller (or the error reaches it)
Return(p) ==
    /\ proc[p].pc = "done"
    /\ proc' = [proc EXCEPT ![p] = IdleProc]
    /\ UNCHANGED <<userVars, fsVars, overlap, relVars>>

\* ------------------------------------------------- Spec: one handler at a time
\* the avatar a new user is created with: the default, or an uploaded file
NewAvatar(av, up) == up = (av \in Uploads)

\* the avatar of an instance about to be saved: an uploaded file, or a
\* reference already committed to storage: the default, the one the row of
\* the user holds, or any when the row was deleted after the instance was loaded
EditedAvatar(pk, av, up) ==
    IF up THEN av \in Uploads
    ELSE IF pk \in DOMAIN rows THEN av \in {Default, rows[pk].avatar} ELSE TRUE

Next ==
    \/ \E e \in RawEmails, av \in Names, up \in BOOLEAN :
          NewAvatar(av, up) /\ CreateUser("p1", e, av, up)
    \/ \E pk \in 1..MaxUsers, av \in Names, em \in Emails, up \in BOOLEAN :
          EditedAvatar(pk, av, up) /\ BeginSave("p1", pk, av, em, up)
    \/ SaveReconcile("p1")
    \/ SaveExists("p1")
    \/ \E ok \in BOOLEAN : SaveRemove("p1", ok)
    \/ SuperSave("p1")
    \/ \E pk \in 1..MaxUsers : BeginDelete("p1", pk)
    \/ DeleteCheck("p1")
    \/ \E ok \in BOOLEAN : DeleteRemove("p1", ok)
    \/ SuperDelete("p1")
    \/ Return("p1")

Spec == Init /\ [][Next]_vars

\* ------------------------- RaceSpec: two handlers saving the same user
\* the state after user 1 was created with the uploaded avatar a.png
RaceInit ==
    /\ rows = (1 :> [avatar |-> "a.png", email |-> "e1@x.org"])
    /\ nextPk = 2
    /\ files = {Path(Default), Path("a.png")}
    /\ hist = [f \in AllPaths |-> NoHist]
    /\ overlap = FALSE
    /\ proc = [p \in Procs |-> IdleProc]
    /\ topics = {}
    /\ nextTopic = 1
    /\ rooms = <<>>
    /\ nextRoom = 1
    /\ messages = <<>>
    /\ nextMessage = 1

\* a profile edit: the handler loads user 1 and either keeps its avatar or
\* attaches an uploaded file, then calls user.save()
RaceBeginSave(p, av, up) ==
    /\ 1 \in DOMAIN rows
    /\ IF up THEN av \in Uploads ELSE av = rows[1].avatar
    /\ BeginSave(p, 1, av, rows[1].email, up)

RaceNext ==
    \E p \in Procs :
        \/ \E av \in Names, up \in BOOLEAN : RaceBeginSave(p, av, up)
        \/ SaveReconcile(p)
        \/ SaveExists(p)
        \/ \E ok \in BOOLEAN : SaveRemove(p, ok)
        \/ SuperSave(p)
        \/ Return(p)

RaceSpec == RaceInit /\ [][RaceNext]_vars

\* ------------------------------- RelSpec: users, topics, rooms, messages
\* Topic.objects.create(name=...)
CreateTopic ==
    /\ nextTopic <= MaxTopics
    /\ topics' = topics \cup {nextTopic}
    /\ nextTopic' = nextTopic + 1
    /\ UNCHANGED <<userVars, fsVars, overlap, proc, rooms, nextRoom, messages, nextMessage>>

\* topic.delete(): rooms of the topic keep existing with topic NULL
DeleteTopic(t) ==
    /\ t \in topics
    /\ topics' = topics \ {t}
    /\ rooms' = RoomsAfterTopicDelete(rooms, t)
    /\ UNCHANGED <<userVars, fsVars, overlap, proc, nextTopic, nextRoom, messages, nextMessage>>

\* Room.objects.create(host=..., topic=...): both foreign keys are nullable
CreateRoom(host, topic) ==
    /\ nextRoom <= MaxRooms
    /\ host \in DOMAIN rows \cup {NoPk}
    /\ topic \in topics \cup {NoTopic}
    /\ rooms' = [r \in DOMAIN rooms \cup {nextRoom} |->
                    IF r = nextRoom THEN [host |-> host, topic |-> topic] ELSE rooms[r]]
    /\ nextRoom' = nextRoom + 1
    /\ UNCHANGED <<userVars, fsVars, overlap, proc, topics, nextTopic, messages, nextMessage>>

\* room.delete(): its messages go with it
DeleteRoom(r) ==
    /\ r \in DOMAIN rooms
    /\ rooms' = [x \in DOMAIN rooms \ {r} |-> rooms[x]]
    /\ messages' = MessagesAfterRoomDelete(messages, r)
    /\ UNCHANGED <<userVars, fsVars, overlap, proc, topics, nextTopic, nextRoom, nextMessage>>

\* Message.objects.create(user=..., room=...): neither foreign key is nullable
CreateMessage(user, room) ==
    /\ nextMessage <= MaxMessages
    /\ user \in DOMAIN rows
    /\ room \in DOMAIN rooms
    /\ messages' = [m \in DOMAIN messages \cup {nextMessage} |->
                       IF m = nextMessage THEN [user |-> user, room |-> room]
                       ELSE messages[m]]
    /\ nextMessage' = nextMessage + 1
    /\ UNCHANGED <<userVars, fsVars, overlap, proc, topics, nextTopic, rooms, nextRoom>>

\* message.delete()
DeleteMessage(m) ==
    /\ m \in DOMAIN messages
    /\ messages' = [x \in DOMAIN messages \ {m} |-> messages[x]]
    /\ UNCHANGED <<userVars, fsVars, overlap, proc, topics, nextTopic, rooms, nextRoom, nextMessage>>

RelNext ==
    \/ \E e \in Emails : CreateUser("p1", e, Default, FALSE)
    \/ SaveReconcile("p1")
    \/ SuperSave("p1")
    \/ \E pk \in 1..MaxUsers : BeginDelete("p1", pk)
    \/ DeleteCheck("p1")
    \/ SuperDelete("p1")
    \/ Return("p1")
    \/ CreateTopic
    \/ \E t \in 1..MaxTopics : DeleteTopic(t)
    \/ \E h \in 0..MaxUsers, t \in 0..MaxTopics : CreateRoom(h, t)
    \/ \E r \in 1..MaxRooms : DeleteRoom(r)
    \/ \E u \in 1..MaxUsers, r \in 1..MaxRooms : CreateMessage(u, r)
    \/ \E m \in 1..MaxMessages : DeleteMessage(m)

RelSpec == Init /\ [][RelNext]_vars

\* ------------------------------------------------------------ claim helpers
Done(p) == proc[p].pc = "done"

Quiescent == \A p \in Procs : ~Busy(p)

\* the persisted row of p's instance holds exactly the in-memory values saved
Persisted(p) ==
    /\ proc[p].inst.pk \in DOMAIN rows
    /\ rows[proc[p].inst.pk] = [avatar |-> proc[p].inst.avatar,
                                email |-> proc[p].inst.email]

\* the file was removed by the lifecycle logic and not written since
LifecycleDeleted(path) == path \notin files /\ hist[path].remover # "none"

\* p is saving an existing user whose persisted avatar was fetched as `old`
SavingExisting(p) == proc[p].op = "save" /\ proc[p].lookup = "hit"

\* C1: a user whose avatar reference is the sentinel "avatar.svg" never causes
\* an os.remove call, neither on delete (the instance's reference) nor on an
\* update (the persisted reference, whatever the new one is); and the file
\* avatar.svg is never the target of os.remove and stays in the media root.
C1_DefaultAvatarProtected ==
    /\ hist[Path(Default)].calls = {}
    /\ Path(Default) \in files
    /\ \A p \in Procs :
          /\ (proc[p].op = "delete" /\ proc[p].inst.avatar = Default)
                => proc[p].calls = 0
          /\ (SavingExisting(p) /\ proc[p].old = Default) => proc[p].calls = 0

C1_Witness ==
    \E p \in Procs :
        /\ Done(p) /\ SavingExisting(p) /\ proc[p].err = "none"
        /\ proc[p].old = Default /\ proc[p].inst.avatar \in Uploads
        /\ Persisted(p)
        /\ \E f \in AllPaths : hist[f].remover # "none"

C3_Original ==
    \A p \in Procs :
        (Done(p) /\ proc[p].fsErr)
        => /\ proc[p].err = "none"
           /\ proc[p].op = "save" => Persisted(p)
           /\ proc[p].op = "delete" => proc[p].inst.pk \notin DOMAIN rows

\* C3 amended: when os.remove failed, the OSError never reaches the caller and
\* the handler goes on to super().save() / super().delete(); a delete then
\* removes the row without error, and a save persists the row without error
\* unless super().save() itself raises IntegrityError (duplicate email).
C3_FsErrorSwallowed ==
    \A p \in Procs :
        proc[p].fsErr
        => /\ proc[p].pc \in {"super_save", "super_delete", "done"}
           /\ proc[p].err \in {"none", "IntegrityError"}
           /\ (Done(p) /\ proc[p].op = "delete")
                => (proc[p].err = "none" /\ proc[p].inst.pk \notin DOMAIN rows)
           /\ (Done(p) /\ proc[p].op = "save" /\ proc[p].err = "none")
                => Persisted(p)

C3_Witness ==
    \E p \in Procs :
        /\ Done(p) /\ proc[p].fsErr /\ proc[p].op = "save"
        /\ proc[p].err = "none" /\ Persisted(p)
        /\ Path(proc[p].old) \in files

\* C4: the row of a user is removed only by User.delete's last step, after
\* the file step: for a non-default avatar c the file c is then absent unless
\* os.remove failed; and once delete returns the row is absent and no error
\* was raised, whether or not the file deletion succeeded.
C4_DeleteFileThenRecord ==
    /\ [](\A p \in Procs :
            (Done(p) /\ proc[p].op = "delete")
            => (proc[p].err = "none" /\ proc[p].inst.pk \notin DOMAIN rows))
    /\ [][\A pk \in DOMAIN rows :
            pk \notin DOMAIN rows'
            => \E p \in Procs :
                  /\ proc[p].pc = "super_delete" /\ proc[p].inst.pk = pk
                  /\ proc'[p].pc = "done"
                  /\ proc[p].inst.avatar # Default
                        => (Path(proc[p].inst.avatar) \notin files \/ proc[p].fsErr)]_vars

C4_Witness ==
    \E p \in Procs :
        /\ Done(p) /\ proc[p].op = "delete" /\ proc[p].inst.avatar \in Uploads
        /\ proc[p].calls = 1 /\ ~proc[p].fsErr
        /\ Path(proc[p].inst.avatar) \notin files
        /\ proc[p].inst.pk \notin DOMAIN rows

\* C5: a save of an existing user whose in-memory avatar equals the persisted
\* one issues no os.remove call, and no step of it removes a file.
C5_UnchangedAvatarNoOp ==
    /\ [](\A p \in Procs :
            (SavingExisting(p) /\ proc[p].old = proc[p].inst.avatar)
            => proc[p].calls = 0)
    /\ [][\A p \in Procs :
            (SavingExisting(p)' /\ proc'[p].old = proc'[p].inst.avatar)
            => (files \subseteq files' /\ \A f \in AllPaths : hist'[f].calls \subseteq hist[f].calls)]_vars

C5_Witness ==
    \E p \in Procs :
        /\ Done(p) /\ SavingExisting(p) /\ proc[p].err = "none"
        /\ proc[p].old = proc[p].inst.avatar /\ proc[p].old \in Uploads
        /\ Path(proc[p].old) \in files
        /\ Persisted(p)

\* C6: the save of a brand-new record (no pk before the save) looks up no
\* previous version, issues no os.remove, removes no file and touches no other
\* row; when super().save() succeeds the new row holds the instance's values.
C6_CreateSkipsReconcile ==
    /\ [](\A p \in Procs :
            proc[p].op = "create"
            => /\ proc[p].lookup = "none" /\ proc[p].old = NoRef
               /\ proc[p].calls = 0
               /\ (Done(p) /\ proc[p].err = "none") => Persisted(p))
    /\ [][\A p \in Procs :
            proc'[p].op = "create"
            => /\ files \subseteq files'
               /\ \A f \in AllPaths : hist'[f].calls \subseteq hist[f].calls
               /\ \A k \in DOMAIN rows : k \in DOMAIN rows' /\ rows'[k] = rows[k]]_vars

C6_Witness ==
    \E p \in Procs :
        /\ Done(p) /\ proc[p].op = "create" /\ proc[p].err = "none"
        /\ proc[p].inst.avatar \in Uploads
        /\ Persisted(p)
        /\ \E f \in files : f # Path(Default) /\ f # Path(proc[p].inst.avatar)

\* C7 as stated: a save whose persisted row is gone at the fetch issues no
\* os.remove, raises nothing and persists the in-memory state.
C7_Original ==
    \A p \in Procs :
        (Done(p) /\ proc[p].op = "save" /\ proc[p].lookup = "miss")
        => (proc[p].calls = 0 /\ proc[p].err = "none" /\ Persisted(p))

\* C7 amended: on a lookup miss the DoesNotExist is swallowed, no os.remove is
\* issued and the handler goes on to super().save(), which persists the
\* in-memory state unless it raises IntegrityError itself (duplicate email).
C7_LookupMissNonFatal ==
    \A p \in Procs :
        proc[p].lookup = "miss"
        => /\ proc[p].pc \in {"super_save", "done"}
           /\ proc[p].calls = 0 /\ proc[p].old = NoRef
           /\ proc[p].err \in {"none", "IntegrityError"}
           /\ (Done(p) /\ proc[p].err = "none") => Persisted(p)

C7_Witness ==
    \E p \in Procs :
        /\ Done(p) /\ proc[p].op = "save" /\ proc[p].lookup = "miss"
        /\ proc[p].err = "none" /\ Persisted(p)

\* C10: between operations run one after another, every non-default avatar
\* reference of a persisted user names a file the lifecycle logic has not
\* deleted.
C10_NoDanglingAvatar ==
    Quiescent
    => \A pk \in DOMAIN rows :
          rows[pk].avatar # Default => ~LifecycleDeleted(Path(rows[pk].avatar))

\* a persisted reference names a file that handler q wrote and that the
\* cleanup of another handler removed afterwards
DeletedUnderWriter ==
    \E pk \in DOMAIN rows :
        LET f == Path(rows[pk].avatar) IN
        /\ rows[pk].avatar # Default
        /\ LifecycleDeleted(f)
        /\ hist[f].writer \in Procs
        /\ hist[f].remover # hist[f].writer

\* a non-default file written by a save sits in the media root, no persisted
\* row references it, and no os.remove was ever attempted on it
SkippedDeletion ==
    \E n \in Uploads :
        /\ Path(n) \in files
        /\ hist[Path(n)].writer \in Procs
        /\ hist[Path(n)].calls = {}
        /\ \A pk \in DOMAIN rows : rows[pk].avatar # n

\* C8: two saves of the same user interleaved step by step, with no locking,
\* can end (1) with the persisted avatar reference naming a file that one
\* handler's cleanup removed after the other handler's save wrote it, and (2)
\* with a replaced avatar file left in the media root unreferenced and never
\* targeted by os.remove (both are reached in C8_Witness); between operations
\* neither outcome occurs in a run in which no operation began while another
\* handler was inside one.
C8_RaceNeedsOverlap ==
    (Quiescent /\ (DeletedUnderWriter \/ SkippedDeletion)) => overlap

C8_Witness ==
    /\ Quiescent /\ overlap
    /\ DeletedUnderWriter
    /\ SkippedDeletion

\* every foreign key names an existing row (or is NULL where nullable)
RefIntegrity ==
    /\ \A m \in DOMAIN messages :
          messages[m].user \in DOMAIN rows /\ messages[m].room \in DOMAIN rooms
    /\ \A r \in DOMAIN rooms :
          /\ rooms[r].host \in DOMAIN rows \cup {NoPk}
          /\ rooms[r].topic \in topics \cup {NoTopic}

\* C9: every Message references an existing Room and User, every Room's host
\* and topic is NULL or an existing row; a step that deletes a User or a Topic
\* removes no Room and only clears the host or topic that named the deleted
\* row, and a step that deletes a User or a Room deletes exactly the messages
\* that referenced it.
C9_ReferentialIntegrity ==
    /\ []RefIntegrity
    /\ [][LET goneUsers == DOMAIN rows \ DOMAIN rows'
              goneTopics == topics \ topics'
              goneRooms == DOMAIN rooms \ DOMAIN rooms'
          IN  /\ (goneUsers # {} \/ goneTopics # {})
                    => /\ DOMAIN rooms' = DOMAIN rooms
                       /\ \A r \in DOMAIN rooms :
                            /\ rooms'[r].host =
                                 IF rooms[r].host \in goneUsers THEN NoPk ELSE rooms[r].host
                            /\ rooms'[r].topic =
                                 IF rooms[r].topic \in goneTopics THEN NoTopic ELSE rooms[r].topic
              /\ (goneUsers # {} \/ goneRooms # {})
                    => /\ DOMAIN messages' =
                            {m \in DOMAIN messages :
                                messages[m].user \notin goneUsers
                                /\ messages[m].room \notin goneRooms}
                       /\ \A m \in DOMAIN messages' : messages'[m] = messages[m]]_vars

C9_Witness ==
    /\ Done("p1") /\ proc["p1"].op = "delete"
    /\ proc["p1"].inst.pk \notin DOMAIN rows
    /\ proc["p1"].swept.rooms # {} /\ proc["p1"].swept.messages # {}
    /\ \A r \in proc["p1"].swept.rooms : r \in DOMAIN rooms /\ rooms[r].host = NoPk
    /\ \A m \in proc["p1"].swept.messages : m \notin DOMAIN messages
    /\ \E r \in DOMAIN rooms : rooms[r].topic = NoTopic
    /\ nextTopic > 1 /\ topics = {}

====
